---- MODULE Spec2Model ----
(***************************************************************************)
(* Model of the detection decoding and suppression code of                 *)
(* DroneDetection/public/app.js: iou, nms and decodeYOLO.                  *)
(*                                                                         *)
(* JavaScript numbers are modelled as exact rationals [n, d] in lowest     *)
(* terms with d > 0, extended by the three non-finite IEEE values, which   *)
(* are written with d = 0: NaN = 0/0, +Infinity = 1/0, -Infinity = -1/0.   *)
(* The arithmetic and comparison operators follow IEEE 754 on these        *)
(* values (NaN is unordered and absorbing, Infinity - Infinity is NaN      *)
(* and so on); rounding error and the sign of zero are not modelled.       *)
(***************************************************************************)
EXTENDS Integers, Sequences, FiniteSets

VARIABLES
    pc,          \* position of the single thread of control
    caller,      \* who called nms: "decodeYOLO" or "direct"
    output,      \* decodeYOLO argument: [dims, data]
    imgWidth,    \* decodeYOLO argument
    imgHeight,   \* decodeYOLO argument
    scale,       \* decodeYOLO argument
    padX,        \* decodeYOLO argument
    padY,        \* decodeYOLO argument
    i,           \* decodeYOLO loop index
    detections,  \* decodeYOLO's array of detections
    candidates,  \* the array as it was handed to nms (before nms reorders it)
    boxes,       \* nms's parameter / local
    aliased,     \* TRUE while nms's boxes is still the caller's array object
    threshold,   \* nms's parameter
    result,      \* nms's result array
    returned,    \* value returned to the outermost caller (<<>> until then)
    thrown,      \* TRUE iff an exception reached the outermost caller
    pass,        \* 1 for the first application of nms, 2 for the second
    first        \* result of the first application of nms

vars == <<pc, caller, output, imgWidth, imgHeight, scale, padX, padY, i,
          detections, candidates, boxes, aliased, threshold, result,
          returned, thrown, pass, first>>

(***************************************************************************)
(* Numbers                                                                 *)
(***************************************************************************)
Abs(k) == IF k < 0 THEN -k ELSE k

RECURSIVE GCD(_, _)
GCD(a, b) == IF b = 0 THEN a ELSE GCD(b, a % b)

\* the rational n/d (d # 0) in lowest terms with a positive denominator
Norm(n, d) ==
    LET g == GCD(Abs(n), Abs(d))
        s == IF d < 0 THEN -1 ELSE 1
    IN  [n |-> s * (n \div g), d |-> s * (d \div g)]

Num(k) == [n |-> k, d |-> 1]
NaN == [n |-> 0, d |-> 0]
PInf == [n |-> 1, d |-> 0]
NInf == [n |-> -1, d |-> 0]
Zero == Num(0)

IsNaN(x) == x.n = 0 /\ x.d = 0
IsFinite(x) == x.d # 0
IsInf(x) == x.d = 0 /\ x.n # 0
Sgn(x) == IF x.n > 0 THEN 1 ELSE IF x.n < 0 THEN -1 ELSE 0
InfOf(s) == IF s < 0 THEN NInf ELSE PInf

FNeg(x) == [n |-> -x.n, d |-> x.d]

\* x + y
FAdd(x, y) ==
    IF IsNaN(x) \/ IsNaN(y) THEN NaN
    ELSE IF IsInf(x) /\ IsInf(y) THEN (IF x = y THEN x ELSE NaN)
    ELSE IF IsInf(x) THEN x
    ELSE IF IsInf(y) THEN y
    ELSE Norm(x.n * y.d + y.n * x.d, x.d * y.d)

\* x - y
FSub(x, y) == FAdd(x, FNeg(y))

\* x * y
FMul(x, y) ==
    IF IsNaN(x) \/ IsNaN(y) THEN NaN
    ELSE IF IsInf(x) \/ IsInf(y)
         THEN (IF Sgn(x) = 0 \/ Sgn(y) = 0 THEN NaN ELSE InfOf(Sgn(x) * Sgn(y)))
    ELSE LET g1 == GCD(Abs(x.n), y.d)
             g2 == GCD(Abs(y.n), x.d)
         IN  Norm((x.n \div g1) * (y.n \div g2), (x.d \div g2) * (y.d \div g1))

\* x / y
FDiv(x, y) ==
    IF IsNaN(x) \/ IsNaN(y) THEN NaN
    ELSE IF IsInf(x) /\ IsInf(y) THEN NaN
    ELSE IF IsInf(x) THEN (IF Sgn(y) < 0 THEN FNeg(x) ELSE x)
    ELSE IF IsInf(y) THEN Zero
    ELSE IF y.n = 0 THEN (IF x.n = 0 THEN NaN ELSE InfOf(Sgn(x)))
    ELSE FMul(x, Norm(y.d, y.n))

\* x < y
FLt(x, y) ==
    IF IsNaN(x) \/ IsNaN(y) THEN FALSE
    ELSE IF IsInf(x) \/ IsInf(y)
         THEN x # y /\ (x = NInf \/ y = PInf)
    ELSE x.n * y.d < y.n * x.d

\* x > y, x >= y, x <= y
FGt(x, y) == FLt(y, x)
FGe(x, y) == ~IsNaN(x) /\ ~IsNaN(y) /\ ~FLt(x, y)
FLe(x, y) == FGe(y, x)

\* Math.max(x, y) and Math.min(x, y)
MathMax(x, y) == IF IsNaN(x) \/ IsNaN(y) THEN NaN ELSE IF FLt(x, y) THEN y ELSE x
MathMin(x, y) == IF IsNaN(x) \/ IsNaN(y) THEN NaN ELSE IF FLt(y, x) THEN y ELSE x

(***************************************************************************)
(* Configuration                                                           *)
(***************************************************************************)
CONF_THRESHOLD == Norm(2, 5)
NMS_THRESHOLD == Norm(1, 2)
NumKnownClasses == 5
Epsilon == Norm(1, 1000000)

(***************************************************************************)
(* Math utilities                                                          *)
(***************************************************************************)
\* Intersection over Union
iou(a, b) ==
    LET x1 == MathMax(a.x1, b.x1)
        y1 == MathMax(a.y1, b.y1)
        x2 == MathMin(a.x2, b.x2)
        y2 == MathMin(a.y2, b.y2)
        interArea == FMul(MathMax(Zero, FSub(x2, x1)), MathMax(Zero, FSub(y2, y1)))
        boxAArea == FMul(FSub(a.x2, a.x1), FSub(a.y2, a.y1))
        boxBArea == FMul(FSub(b.x2, b.x1), FSub(b.y2, b.y1))
    IN  FDiv(interArea, FAdd(FSub(FAdd(boxAArea, boxBArea), interArea), Epsilon))

(***************************************************************************)
(* Detections.  A detection object carries the six fields the code gives   *)
(* it; ref stands for the identity of the JavaScript object (two objects   *)
(* with equal fields are still two objects).                               *)
(***************************************************************************)
Det(x1, y1, x2, y2, score, classId, ref) ==
    [x1 |-> x1, y1 |-> y1, x2 |-> x2, y2 |-> y2,
     score |-> score, classId |-> classId, ref |-> ref]

(***************************************************************************)
(* Non-Max Suppression                                                     *)
(***************************************************************************)
\* mutant of compareFn: the subtraction the other way round (ascending order)
compareFnAscending(a, b) == FSub(a.score, b.score)

\* the comparator handed to Array.prototype.sort
compareFn(a, b) == FSub(b.score, a.score)

\* what the sort makes of the comparator's value: NaN counts as 0
SortCompare(a, b) ==
    LET v == compareFn(a, b) IN IF IsNaN(v) THEN 0 ELSE Sgn(v)

\* mutant of InsertSorted: an element moves in front of its equals
RECURSIVE InsertSortedTiesFirst(_, _)
InsertSortedTiesFirst(s, x) ==
    IF s = <<>> THEN <<x>>
    ELSE IF SortCompare(s[Len(s)], x) >= 0
         THEN Append(InsertSortedTiesFirst(SubSeq(s, 1, Len(s) - 1), x), s[Len(s)])
         ELSE Append(s, x)

\* stable insertion of x at the end of the sorted sequence s
RECURSIVE InsertSorted(_, _)
InsertSorted(s, x) ==
    IF s = <<>> THEN <<x>>
    ELSE IF SortCompare(s[Len(s)], x) > 0
         THEN Append(InsertSorted(SubSeq(s, 1, Len(s) - 1), x), s[Len(s)])
         ELSE Append(s, x)

\* Array.prototype.sort with the comparator: a stable sort
RECURSIVE SortByScore(_)
SortByScore(s) ==
    IF s = <<>> THEN <<>>
    ELSE InsertSorted(SortByScore(SubSeq(s, 1, Len(s) - 1)), s[Len(s)])

\* mutant of Survives: <= in place of <
SurvivesOrEqual(current, b, t) == FLe(iou(current, b), t)

\* the filter predicate b => iou(current, b) < threshold
Survives(current, b, t) == FLt(iou(current, b), t)

\* boxes.filter(b => iou(current, b) < threshold)
FilterBoxes(s, current, t) ==
    LET Test(b) == Survives(current, b, t) IN SelectSeq(s, Test)

\* mutant of ShiftRest: the first element is read but not removed
ShiftRestPeek(s) == s

\* the array after boxes.shift() has taken its first element
ShiftRest(s) == Tail(s)

\* boxes.sort(...); const result = []
NmsSort ==
    /\ pc = "nms_sort"
    /\ boxes' = SortByScore(boxes)
    /\ detections' = IF aliased THEN SortByScore(boxes) ELSE detections
    /\ result' = <<>>
    /\ pc' = "nms_loop"
    /\ UNCHANGED <<caller, output, imgWidth, imgHeight, scale, padX, padY, i,
                   candidates, aliased, threshold, returned, thrown, pass, first>>

\* one iteration of the while loop: shift, push, filter
NmsIter ==
    /\ pc = "nms_loop"
    /\ Len(boxes) > 0
    /\ LET current == Head(boxes)
       IN  /\ result' = Append(result, current)
           /\ boxes' = FilterBoxes(ShiftRest(boxes), current, threshold)
    /\ detections' = IF aliased THEN ShiftRest(boxes) ELSE detections
    /\ aliased' = FALSE
    /\ UNCHANGED <<pc, caller, output, imgWidth, imgHeight, scale, padX, padY, i,
                   candidates, threshold, returned, thrown, pass, first>>

\* the loop ends; return result (decodeYOLO returns it unchanged)
NmsReturn ==
    /\ pc = "nms_loop"
    /\ Len(boxes) = 0
    /\ returned' = result
    /\ pc' = IF caller = "decodeYOLO" THEN "done" ELSE "nms_done"
    /\ UNCHANGED <<caller, output, imgWidth, imgHeight, scale, padX, padY, i,
                   detections, candidates, boxes, aliased, threshold, result,
                   thrown, pass, first>>

\* nms applied to its own result with the same threshold
NmsAgain ==
    /\ pc = "nms_done"
    /\ pass = 1
    /\ first' = returned
    /\ boxes' = returned
    /\ detections' = returned
    /\ aliased' = TRUE
    /\ pass' = 2
    /\ pc' = "nms_sort"
    /\ UNCHANGED <<caller, output, imgWidth, imgHeight, scale, padX, padY, i,
                   candidates, threshold, result, returned, thrown>>

(***************************************************************************)
(* Inputs of a direct call nms(boxes, threshold)                           *)
(***************************************************************************)
MaxBoxes == 3

Half == Norm(1, 2)
Rect(x1, y1, x2, y2, classId) ==
    [x1 |-> x1, y1 |-> y1, x2 |-> x2, y2 |-> y2, classId |-> classId]

\* boxes: A, B (IoU 1/3 with A), C (IoU 1/3 with B, disjoint from A),
\* D (IoU 2/3 with A), and a box with NaN coordinates
NmsRects ==
    { Rect(Num(0), Num(0), Num(2), Num(2), 1),
      Rect(Num(1), Num(0), Num(3), Num(2), 1),
      Rect(Num(2), Num(0), Num(4), Num(2), 0),
      Rect(Num(0), Num(0), Num(2), Num(3), 0),
      Rect(NaN, Num(0), NaN, Num(2), 1) }

NmsScores == { Norm(2, 5), Norm(9, 10) }

NmsItems ==
    { [rect |-> r, score |-> s] : r \in NmsRects, s \in NmsScores }
    \cup { [rect |-> Rect(Num(0), Num(0), Num(2), Num(2), 1), score |-> PInf] }

NmsLists == UNION { [1..n -> NmsItems] : n \in 0..MaxBoxes }

Thresholds == { Zero, Norm(1, 4), Half, Num(1) }

ListOf(items) ==
    [k \in 1..Len(items) |->
        Det(items[k].rect.x1, items[k].rect.y1, items[k].rect.x2, items[k].rect.y2,
            items[k].score, items[k].rect.classId, k)]

NoTensor == [dims |-> <<>>, data |-> <<>>]

InitNms ==
    /\ pc = "nms_sort"
    /\ caller = "direct"
    /\ output = NoTensor
    /\ imgWidth = Zero /\ imgHeight = Zero
    /\ scale = Num(1) /\ padX = Zero /\ padY = Zero
    /\ i = 0
    /\ \E items \in NmsLists :
          /\ detections = ListOf(items)
          /\ candidates = ListOf(items)
          /\ boxes = ListOf(items)
    /\ aliased = TRUE
    /\ threshold \in Thresholds
    /\ result = <<>>
    /\ returned = <<>>
    /\ thrown = FALSE
    /\ pass = 1
    /\ first = <<>>

NextNms == NmsSort \/ NmsIter \/ NmsReturn \/ NmsAgain

SpecNms == InitNms /\ [][NextNms]_vars

(***************************************************************************)
(* YOLOv8 decoding                                                         *)
(***************************************************************************)
\* data[k] for a flat 0-based index k; reading past the end of the typed
\* array gives undefined, which arithmetic and comparisons treat as NaN
At(data, k) == IF k >= 0 /\ k < Len(data) THEN data[k + 1] ELSE NaN

numAttrs == output.dims[2]
numPreds == output.dims[3]
numClasses == numAttrs - 4

\* the number of iterations of the class loop: c < Math.min(numClasses, CLASSES.length)
ClassLimit(nc) ==
    LET m == IF nc < NumKnownClasses THEN nc ELSE NumKnownClasses
    IN  IF m < 0 THEN 0 ELSE m

\* mutant of ScoreIndex: class channels taken to start after an objectness channel
ScoreIndexObjectness(p, c, np) == p + (5 + c) * np

\* flat index of class channel c of prediction p
ScoreIndex(p, c, np) == p + (4 + c) * np

\* bestScore and bestClass after the first n iterations of the class loop
RECURSIVE BestAfter(_, _, _, _)
BestAfter(data, p, np, n) ==
    IF n = 0 THEN [bestScore |-> Zero, bestClass |-> -1]
    ELSE LET prev == BestAfter(data, p, np, n - 1)
             score == At(data, ScoreIndex(p, n - 1, np))
         IN  IF FGt(score, prev.bestScore)
             THEN [bestScore |-> score, bestClass |-> n - 1]
             ELSE prev

Best(data, p, np, nc) == BestAfter(data, p, np, ClassLimit(nc))

\* mutant of BelowThreshold: the comparison inverted
BelowThresholdInverted(bestScore) == FGt(bestScore, CONF_THRESHOLD)

\* if (bestScore < CONF_THRESHOLD) continue
BelowThreshold(bestScore) == FLt(bestScore, CONF_THRESHOLD)

\* Math.max(0, Math.min(limit, v))
Clamp(v, limit) == MathMax(Zero, MathMin(limit, v))

\* map a model-space coordinate back to image space
Unletterbox(v, pad, sc) == FDiv(FSub(v, pad), sc)

\* the detection pushed for prediction p
Decoded(data, p, np, nc, w0, h0, sc, px, py) ==
    LET cx == At(data, p)
        cy == At(data, p + np)
        w == At(data, p + 2 * np)
        h == At(data, p + 3 * np)
        best == Best(data, p, np, nc)
        x1_model == FSub(cx, FDiv(w, Num(2)))
        y1_model == FSub(cy, FDiv(h, Num(2)))
        x2_model == FAdd(cx, FDiv(w, Num(2)))
        y2_model == FAdd(cy, FDiv(h, Num(2)))
        x1 == Unletterbox(x1_model, px, sc)
        y1 == Unletterbox(y1_model, py, sc)
        x2 == Unletterbox(x2_model, px, sc)
        y2 == Unletterbox(y2_model, py, sc)
    IN  Det(Clamp(x1, w0), Clamp(y1, h0), Clamp(x2, w0), Clamp(y2, h0),
            best.bestScore, best.bestClass, p)

\* dims.length !== 3: log and return []
DecodeBadDims ==
    /\ pc = "decode_entry"
    /\ Len(output.dims) # 3
    /\ returned' = <<>>
    /\ pc' = "done"
    /\ UNCHANGED <<caller, output, imgWidth, imgHeight, scale, padX, padY, i,
                   detections, candidates, boxes, aliased, threshold, result,
                   thrown, pass, first>>

\* dims.length === 3: destructure dims, detections = []
DecodeDims ==
    /\ pc = "decode_entry"
    /\ Len(output.dims) = 3
    /\ detections' = <<>>
    /\ i' = 0
    /\ pc' = "decode_loop"
    /\ UNCHANGED <<caller, output, imgWidth, imgHeight, scale, padX, padY,
                   candidates, boxes, aliased, threshold, result, returned,
                   thrown, pass, first>>

\* a loop iteration that ends at `continue`
DecodeSkip ==
    /\ pc = "decode_loop"
    /\ i < numPreds
    /\ BelowThreshold(Best(output.data, i, numPreds, numClasses).bestScore)
    /\ i' = i + 1
    /\ UNCHANGED <<pc, caller, output, imgWidth, imgHeight, scale, padX, padY,
                   detections, candidates, boxes, aliased, threshold, result,
                   returned, thrown, pass, first>>

\* a loop iteration that pushes a detection
DecodeEmit ==
    /\ pc = "decode_loop"
    /\ i < numPreds
    /\ ~BelowThreshold(Best(output.data, i, numPreds, numClasses).bestScore)
    /\ detections' = Append(detections,
                            Decoded(output.data, i, numPreds, numClasses,
                                    imgWidth, imgHeight, scale, padX, padY))
    /\ i' = i + 1
    /\ UNCHANGED <<pc, caller, output, imgWidth, imgHeight, scale, padX, padY,
                   candidates, boxes, aliased, threshold, result, returned,
                   thrown, pass, first>>

\* the loop ends: nms(detections, NMS_THRESHOLD)
DecodeCallNms ==
    /\ pc = "decode_loop"
    /\ ~(i < numPreds)
    /\ candidates' = detections
    /\ boxes' = detections
    /\ aliased' = TRUE
    /\ threshold' = NMS_THRESHOLD
    /\ pc' = "nms_sort"
    /\ UNCHANGED <<caller, output, imgWidth, imgHeight, scale, padX, padY, i,
                   detections, result, returned, thrown, pass, first>>

(***************************************************************************)
(* Inputs of a call decodeYOLO(output, imgWidth, imgHeight, scale, padX,   *)
(* padY)                                                                   *)
(***************************************************************************)
MaxPreds == 2

AttrCounts == {3, 4, 5, 6, 10}

\* letterbox parameters of a 4x4 image and of an 8x4 image in a 4x4 input
Letterboxes ==
    { [imgWidth |-> Num(4), imgHeight |-> Num(4), scale |-> Num(1),
       padX |-> Zero, padY |-> Zero],
      [imgWidth |-> Num(8), imgHeight |-> Num(4), scale |-> Half,
       padX |-> Zero, padY |-> Num(1)] }

\* geometry <<cx, cy, w, h>> in input-tensor pixels
Geoms ==
    { <<Num(1), Num(1), Num(2), Num(2)>>,
      <<Num(1), Num(1), Num(2), Num(4)>>,
      <<Num(6), Num(3), Num(2), Num(2)>>,
      <<NaN, Num(1), Num(2), Num(2)>>,
      <<Num(1), Num(1), PInf, Num(2)>> }

Low == Norm(3, 10)
High == Norm(9, 10)

\* scores of the last two class channels; the other channels hold Low
ScorePairs ==
    { <<Low, Low>>, <<CONF_THRESHOLD, Low>>, <<High, High>>,
      <<CONF_THRESHOLD, High>>, <<NaN, High>>, <<PInf, Low>> }

ScoreRows(nc) ==
    { [c \in 0..(nc - 1) |->
          IF c = (IF nc >= 2 THEN nc - 2 ELSE 0) THEN p[1]
          ELSE IF c = nc - 1 THEN p[2]
          ELSE Low] : p \in ScorePairs }

\* the attribute column of one prediction
Columns(na) ==
    { [a \in 0..(na - 1) |-> IF a < 4 THEN g[a + 1] ELSE r[a - 4]] :
          g \in Geoms, r \in ScoreRows(na - 4) }

\* the flat attribute-major buffer of the columns cols[1..np]
Flatten(cols, na, np) ==
    [k \in 1..(na * np) |-> cols[((k - 1) % np) + 1][(k - 1) \div np]]

\* tensors of rank 3, with every attribute count and up to MaxPreds predictions
Rank3Tensor(t) ==
    \E na \in AttrCounts, np \in 0..MaxPreds :
        \E cols \in [1..np -> Columns(na)] :
            t = [dims |-> <<1, na, np>>, data |-> Flatten(cols, na, np)]

\* tensors of rank 2 and 4
BadRankTensor(t) ==
    \E d \in { <<5, 1>>, <<1, 1, 5, 1>> } :
        \E cols \in [1..1 -> Columns(5)] :
            t = [dims |-> d, data |-> Flatten(cols, 5, 1)]

Init ==
    /\ pc = "decode_entry"
    /\ caller = "decodeYOLO"
    /\ Rank3Tensor(output) \/ BadRankTensor(output)
    /\ \E lb \in Letterboxes :
          /\ imgWidth = lb.imgWidth
          /\ imgHeight = lb.imgHeight
          /\ scale = lb.scale
          /\ padX = lb.padX
          /\ padY = lb.padY
    /\ i = 0
    /\ detections = <<>>
    /\ candidates = <<>>
    /\ boxes = <<>>
    /\ aliased = FALSE
    /\ threshold = NMS_THRESHOLD
    /\ result = <<>>
    /\ returned = <<>>
    /\ thrown = FALSE
    /\ pass = 1
    /\ first = <<>>

Next ==
    \/ DecodeBadDims
    \/ DecodeDims
    \/ DecodeSkip
    \/ DecodeEmit
    \/ DecodeCallNms
    \/ NmsSort
    \/ NmsIter
    \/ NmsReturn

Spec == Init /\ [][Next]_vars

(***************************************************************************)
(* Properties                                                              *)
(***************************************************************************)
Elems(s) == { s[k] : k \in 1..Len(s) }

ValidShape == Len(output.dims) = 3 /\ output.dims[2] > 4

\* C1: the list nms returns holds no two distinct entries a, b with
\* iou(a, b) >= threshold
C1_NoOverlapInOutput ==
    pc = "nms_done" =>
        \A j, k \in 1..Len(returned) :
            j # k => ~FGe(iou(returned[j], returned[k]), threshold)

\* C1 witness: nms has returned at least two detections and suppressed one
C1_Witness ==
    /\ pc = "nms_done"
    /\ pass = 1
    /\ Len(returned) >= 2
    /\ Len(returned) < Len(candidates)

\* C6: applying nms to its own result returns the same sequence
C6_Idempotent ==
    (pc = "nms_done" /\ pass = 2) => returned = first

\* C6 witness: the second application has returned, and the first one had
\* both kept several detections and removed some
C6_Witness ==
    /\ pc = "nms_done"
    /\ pass = 2
    /\ Len(first) >= 2
    /\ Len(first) < Len(candidates)

\* C7: the list nms returns is ordered by non-increasing score, and
\* detections of equal score keep the relative order they had in the input
C7_SortedStable ==
    pc = "nms_done" =>
        \A j, k \in 1..Len(returned) :
            j < k =>
                /\ FGe(returned[j].score, returned[k].score)
                /\ returned[j].score = returned[k].score =>
                       \E m, n \in 1..Len(candidates) :
                           /\ m < n
                           /\ candidates[m] = returned[j]
                           /\ candidates[n] = returned[k]

\* C7 witness: the input was out of order and the output holds two
\* detections of equal score
C7_Witness ==
    /\ pc = "nms_done"
    /\ pass = 1
    /\ \E m, n \in 1..Len(candidates) :
          m < n /\ FLt(candidates[m].score, candidates[n].score)
    /\ \E j, k \in 1..Len(returned) :
          j < k /\ returned[j].score = returned[k].score

\* the value of attribute a of prediction p in the tensor handed to decodeYOLO
Attr(a, p) == output.data[a * output.dims[3] + p + 1]

\* the class channels decodeYOLO looks at
ClassRange ==
    0..((IF output.dims[2] - 4 < NumKnownClasses
         THEN output.dims[2] - 4 ELSE NumKnownClasses) - 1)

\* C2: decodeYOLO returns at most as many detections as passed the
\* confidence filter, which are at most P, and every detection nms holds
\* or returns is one of those candidates, unchanged and not repeated
C2_OnlyRemoves ==
    (caller = "decodeYOLO" /\ pc \in {"nms_loop", "done"} /\ Len(output.dims) = 3) =>
        LET out == IF pc = "done" THEN returned ELSE result
        IN  /\ Len(out) <= Len(candidates)
            /\ Len(candidates) <= output.dims[3]
            /\ \A k \in 1..Len(out) : out[k] \in Elems(candidates)
            /\ \A j, k \in 1..Len(out) : j # k => out[j].ref # out[k].ref

\* C2 witness: decodeYOLO has returned, nms having kept one candidate and
\* removed another
C2_Witness ==
    /\ pc = "done"
    /\ Len(output.dims) = 3
    /\ Len(returned) >= 1
    /\ Len(returned) < Len(candidates)

\* C3: a tensor whose rank is not 3 or whose attribute count is <= 4 makes
\* decodeYOLO report an error, and an empty list without error is returned
\* only for a valid shape none of whose predictions reaches the threshold
C3_ShapeErrorReported ==
    pc = "done" =>
        /\ ~ValidShape => thrown
        /\ (~thrown /\ returned = <<>>) =>
               /\ ValidShape
               /\ \A p \in 0..(output.dims[3] - 1) : \A c \in ClassRange :
                      ~FGe(Attr(4 + c, p), CONF_THRESHOLD)

\* C4: when decodeYOLO returns, every candidate and every returned
\* detection has score >= CONF_THRESHOLD, and a prediction all of whose
\* class scores are below the threshold is neither a candidate nor in
\* the output
C4_ScoreAtLeastThreshold ==
    (pc = "done" /\ Len(output.dims) = 3) =>
        /\ \A d \in Elems(candidates) \cup Elems(returned) :
               FGe(d.score, CONF_THRESHOLD)
        /\ \A p \in 0..(output.dims[3] - 1) :
               (\A c \in ClassRange : FLt(Attr(4 + c, p), CONF_THRESHOLD)) =>
                   \A d \in Elems(candidates) \cup Elems(returned) : d.ref # p

\* C4 witness: decodeYOLO has returned a detection whose score is exactly
\* the threshold and has dropped another prediction
C4_Witness ==
    /\ pc = "done"
    /\ ValidShape
    /\ \E d \in Elems(returned) : d.score = CONF_THRESHOLD
    /\ Len(candidates) < output.dims[3]

\* C5: every detection decodeYOLO returns lies within the image:
\* 0 <= x1, x2 <= imgWidth and 0 <= y1, y2 <= imgHeight
C5_WithinImage ==
    pc = "done" =>
        \A d \in Elems(returned) :
            /\ FLe(Zero, d.x1) /\ FLe(d.x1, imgWidth)
            /\ FLe(Zero, d.x2) /\ FLe(d.x2, imgWidth)
            /\ FLe(Zero, d.y1) /\ FLe(d.y1, imgHeight)
            /\ FLe(Zero, d.y2) /\ FLe(d.y2, imgHeight)

\* C8: no detection decodeYOLO returns comes from a prediction with a
\* non-finite geometry value or class score, and the run is not aborted
C8_NonFiniteRejected ==
    (pc = "done" /\ Len(output.dims) = 3) =>
        /\ ~thrown
        /\ \A d \in Elems(returned) :
               \A a \in 0..(output.dims[2] - 1) : IsFinite(Attr(a, d.ref))

\* C9: every candidate nms removed has IoU >= threshold with a returned
\* detection that precedes it in the descending-score order, and a
\* non-empty input gives a non-empty output headed by a maximum score
C9_RemovedOnlyByKept ==
    (pc = "done" /\ Len(output.dims) = 3) =>
        /\ \A d \in Elems(candidates) \ Elems(returned) :
               \E r \in Elems(returned) :
                   /\ FGe(iou(r, d), threshold)
                   /\ FGe(r.score, d.score)
                   /\ r.score = d.score => r.ref < d.ref
        /\ candidates # <<>> =>
               /\ returned # <<>>
               /\ \A d \in Elems(candidates) : FGe(returned[1].score, d.score)

\* C10: when decodeYOLO returns, the score of every detection it emitted
\* (candidate or returned) is the greatest class score of its prediction over the class channels looked at, read at flat index
\* (4+c)*P + i; its classId is the lowest channel holding that score; and
\* its box is the clamped, un-letterboxed box of the values at a*P + i
C10_BestClass ==
    (pc = "done" /\ Len(output.dims) = 3) =>
        \A d \in Elems(candidates) \cup Elems(returned) :
            LET p == d.ref
                P == output.dims[3]
                cx == output.data[0 * P + p + 1]
                cy == output.data[1 * P + p + 1]
                w == output.data[2 * P + p + 1]
                h == output.data[3 * P + p + 1]
                hw == FDiv(w, Num(2))
                hh == FDiv(h, Num(2))
            IN  /\ d.classId \in ClassRange
                /\ d.score = output.data[(4 + d.classId) * P + p + 1]
                /\ \A c \in ClassRange :
                       /\ ~FGt(output.data[(4 + c) * P + p + 1], d.score)
                       /\ c < d.classId =>
                              output.data[(4 + c) * P + p + 1] # d.score
                /\ d.x1 = MathMax(Zero, MathMin(imgWidth, FDiv(FSub(FSub(cx, hw), padX), scale)))
                /\ d.x2 = MathMax(Zero, MathMin(imgWidth, FDiv(FSub(FAdd(cx, hw), padX), scale)))
                /\ d.y1 = MathMax(Zero, MathMin(imgHeight, FDiv(FSub(FSub(cy, hh), padY), scale)))
                /\ d.y2 = MathMax(Zero, MathMin(imgHeight, FDiv(FSub(FAdd(cy, hh), padY), scale)))

\* C10 witness: of two predictions, one whose two class scores tie has
\* been returned with the lower class index
C10_Witness ==
    /\ pc = "done"
    /\ ValidShape
    /\ output.dims[2] = 6
    /\ output.dims[3] >= 2
    /\ \E d \in Elems(returned) :
          /\ d.classId = 0
          /\ Attr(4, d.ref) = Attr(5, d.ref)

====
